---- MODULE Spec2Model ----
(***************************************************************************)
(* InstancesRenderer (newIDE scene editor): the per-layer LayerRenderer    *)
(* lifecycle, the z-order reconciliation of the root PIXI container, the   *)
(* instance measurer facade and the teardown.                              *)
(*                                                                         *)
(* Objects are modelled by identity: a LayerRenderer is its index in the   *)
(* sequence `renderers` (in construction order), its PIXI container is     *)
(* named by the same index.  The layout keeps its layers in a list of      *)
(* slots; the layer object getLayerAt(i) gives is slot i of that list, and *)
(* a layer (its name) moves to another slot, hence to another object, when *)
(* layers are inserted, removed or swapped.                                *)
(* `layersRenderers` is the JS object used as a map: a sequence of         *)
(* key/value pairs in insertion order, which is the order for-in visits    *)
(* the (non-numeric) keys.  Layer names are ordinary strings, none of them *)
(* the name of a property inherited from Object.prototype.                 *)
(***************************************************************************)
EXTENDS Integers, Sequences, FiniteSets, TLC

\* ---- bounds of the model ------------------------------------------------
MaxRenderers == 3
MaxRenderersThrowing == 2
\* The longest layout of the runs in which layouts repeat a layer name.
MaxDupLayers == 3
\* The most layer renderers ever constructed in those runs.
MaxDupRenderers == 2

LayerNames == {"Background", "Main", "UI"}
MaxLayers == Cardinality(LayerNames)
ObjectNames == {"Hero", "Tree"}

\* ---- values --------------------------------------------------------------
\* What a lookup of a missing key gives (undefined, falsy).
NoRenderer == 0
\* The zOrder of a PIXI container nobody assigned one to (undefined).
Undefined == -1
\* The target of the calls made on this.pixiContainer, in the call trace.
Root == 0

\* The instances the measurer is asked about.
InstanceLayers == {"Background", "Main"}
Instances == [layer : InstanceLayers, x : {10}, y : {20}, hasCustomSize : BOOLEAN, customWidth : {30}, customHeight : {40}]
NoInstance == [layer |-> "", x |-> 0, y |-> 0, hasCustomSize |-> FALSE, customWidth |-> 0, customHeight |-> 0]
NoRect == [x |-> 0, y |-> 0, width |-> 0, height |-> 0]

\* layout, layersRenderers, renderers (the LayerRenderer objects ever
\* constructed) and pixiContainer are the program's state.  The others record
\* history: trace is the calls the last operation made, lastOp the last
\* operation with its argument, its result and the object as it was before,
\* reported the layer names the last render pass walked.
VARIABLES layout, layersRenderers, renderers, pixiContainer, trace, lastOp, reported

vars == <<layout, layersRenderers, renderers, pixiContainer, trace, lastOp, reported>>

\* One call made by an operation: on the root container (target Root) or on
\* LayerRenderer number `target`.
Ev(target, method, arg, str) == [target |-> target, method |-> method, arg |-> arg, str |-> str]

\* ---- the layout (gdLayout), as render() reads it -------------------------
getLayersCount(lay) == Len(lay)
getLayerAt(lay, i) == [name |-> lay[i + 1], obj |-> i + 1]
LayoutNames(lay) == {lay[p] : p \in 1..Len(lay)}

\* ---- the map this.layersRenderers ----------------------------------------
hasOwnProperty(m, k) == \E j \in 1..Len(m) : m[j].key = k
Lookup(m, k) == IF hasOwnProperty(m, k) THEN m[CHOOSE j \in 1..Len(m) : m[j].key = k].value ELSE NoRenderer
Keys(m) == {m[j].key : j \in 1..Len(m)}
Values(m) == {m[j].value : j \in 1..Len(m)}
SetKey(m, k, v) == Append(m, [key |-> k, value |-> v])
DeleteKey(m, k) == SelectSeq(m, LAMBDA e : e.key # k)
ForInKeys(m) == [j \in 1..Len(m) |-> m[j].key]

\* ---- the PIXI container --------------------------------------------------
addChild(children, c) == Append(children, c)
removeChild(children, c) == SelectSeq(children, LAMBDA e : e # c)
ChildSet(children) == {children[j] : j \in 1..Len(children)}

\* ---- the LayerRenderer collaborator --------------------------------------
NewLayerRenderer(layer) == [layer |-> layer.obj, wasUsed |-> FALSE, zOrder |-> Undefined, destroyed |-> 0]
LayerRendererGetInstanceLeft(r, instance) == 100 * r + 1
LayerRendererGetInstanceTop(r, instance) == 100 * r + 2
LayerRendererGetInstanceWidth(r, instance) == 100 * r + 3
LayerRendererGetInstanceHeight(r, instance) == 100 * r + 4

\* The object as one record, for the methods below.
This == [layersRenderers |-> layersRenderers, renderers |-> renderers, pixiContainer |-> pixiContainer, trace |-> <<>>]

\* ---- render() ------------------------------------------------------------
\* The part of the loop body that looks the renderer up and constructs it.
lookupOrCreate(s, layer) ==
  LET layerName == layer.name
      id == Len(s.renderers) + 1
  IN IF Lookup(s.layersRenderers, layerName) # NoRenderer
       THEN s
       ELSE [s EXCEPT !.layersRenderers = SetKey(@, layerName, id),
                      !.renderers = Append(@, NewLayerRenderer(layer)),
                      !.pixiContainer.children = addChild(@, id),
                      !.trace = @ \o <<Ev(id, "new", layer.obj, layerName), Ev(Root, "addChild", id, "")>>]

\* touchAndRender that leaves alone a renderer this pass has already marked.
touchAndRenderOncePerName(s, i, layer) ==
  LET r == Lookup(s.layersRenderers, layer.name)
  IN IF s.renderers[r].wasUsed
       THEN s
       ELSE [s EXCEPT !.renderers[r].layer = layer.obj,
                      !.renderers[r].wasUsed = TRUE,
                      !.renderers[r].zOrder = i,
                      !.trace = @ \o <<Ev(r, "layer=", layer.obj, ""), Ev(r, "wasUsed=", 1, ""), Ev(r, "zOrder=", i, ""), Ev(r, "render", i, layer.name)>>]

\* touchAndRender without the rebinding of the layer object.
touchAndRenderKeepingLayer(s, i, layer) ==
  LET r == Lookup(s.layersRenderers, layer.name)
  IN [s EXCEPT !.renderers[r].wasUsed = TRUE,
               !.renderers[r].zOrder = i,
               !.trace = @ \o <<Ev(r, "wasUsed=", 1, ""), Ev(r, "zOrder=", i, ""), Ev(r, "render", i, layer.name)>>]

\* touchAndRender without the marking of the renderer as used.
touchAndRenderNotMarking(s, i, layer) ==
  LET r == Lookup(s.layersRenderers, layer.name)
  IN [s EXCEPT !.renderers[r].layer = layer.obj,
               !.renderers[r].zOrder = i,
               !.trace = @ \o <<Ev(r, "layer=", layer.obj, ""), Ev(r, "zOrder=", i, ""), Ev(r, "render", i, layer.name)>>]

\* The part of the loop body that rebinds, marks, orders and renders.
touchAndRender(s, i, layer) ==
  LET r == Lookup(s.layersRenderers, layer.name)
  IN [s EXCEPT !.renderers[r].layer = layer.obj,
               !.renderers[r].wasUsed = TRUE,
               !.renderers[r].zOrder = i,
               !.trace = @ \o <<Ev(r, "layer=", layer.obj, ""), Ev(r, "wasUsed=", 1, ""), Ev(r, "zOrder=", i, ""), Ev(r, "render", i, layer.name)>>]

renderLayer(s, i, layer) == touchAndRender(lookupOrCreate(s, layer), i, layer)

RECURSIVE renderLoop(_, _, _, _)
renderLoop(s, lay, i, n) ==
  IF i < n THEN renderLoop(renderLayer(s, i, getLayerAt(lay, i)), lay, i + 1, n) ELSE s

\* a.zOrder || 0
OrZero(z) == IF z = Undefined THEN 0 ELSE z

\* Array.prototype.sort with the comparator a.zOrder - b.zOrder (stable).
RECURSIVE InsertByZOrder(_, _, _)
InsertByZOrder(sorted, c, rs) ==
  IF sorted = <<>> THEN <<c>>
  ELSE IF rs[sorted[Len(sorted)]].zOrder - rs[c].zOrder <= 0 THEN Append(sorted, c)
  ELSE Append(InsertByZOrder(SubSeq(sorted, 1, Len(sorted) - 1), c, rs), sorted[Len(sorted)])

RECURSIVE SortByZOrder(_, _)
SortByZOrder(children, rs) ==
  IF children = <<>> THEN <<>>
  ELSE InsertByZOrder(SortByZOrder(SubSeq(children, 1, Len(children) - 1), rs), children[Len(children)], rs)

\* updatePixiObjectsZOrder leaving the children as they are.
updatePixiObjectsZOrderUnsorted(s) == [s EXCEPT !.trace = Append(@, Ev(Root, "sort", 0, ""))]

\* The comparator runs on every child as soon as there are two of them.
updatePixiObjectsZOrder(s) ==
  LET compared == IF Len(s.pixiContainer.children) >= 2 THEN ChildSet(s.pixiContainer.children) ELSE {}
      rs == [r \in DOMAIN s.renderers |-> IF r \in compared THEN [s.renderers[r] EXCEPT !.zOrder = OrZero(@)] ELSE s.renderers[r]]
  IN [s EXCEPT !.renderers = rs,
               !.pixiContainer.children = SortByZOrder(@, rs),
               !.trace = Append(@, Ev(Root, "sort", 0, ""))]

\* cleanLayerRenderer without the delete of the key.
cleanLayerRendererKeepingKey(s, i) ==
  LET layerRenderer == Lookup(s.layersRenderers, i)
  IN IF ~s.renderers[layerRenderer].wasUsed
       THEN [s EXCEPT !.pixiContainer.children = removeChild(@, layerRenderer),
                      !.renderers[layerRenderer].destroyed = @ + 1,
                      !.trace = @ \o <<Ev(Root, "removeChild", layerRenderer, ""), Ev(layerRenderer, "delete", 0, "")>>]
       ELSE [s EXCEPT !.renderers[layerRenderer].wasUsed = FALSE,
                      !.trace = Append(@, Ev(layerRenderer, "wasUsed=", 0, ""))]

\* cleanLayerRenderer without the call of the layer renderer's delete().
cleanLayerRendererNotDestroying(s, i) ==
  LET layerRenderer == Lookup(s.layersRenderers, i)
  IN IF ~s.renderers[layerRenderer].wasUsed
       THEN [s EXCEPT !.pixiContainer.children = removeChild(@, layerRenderer),
                      !.layersRenderers = DeleteKey(@, i),
                      !.trace = @ \o <<Ev(Root, "removeChild", layerRenderer, ""), Ev(Root, "deleteKey", layerRenderer, i)>>]
       ELSE [s EXCEPT !.renderers[layerRenderer].wasUsed = FALSE,
                      !.trace = Append(@, Ev(layerRenderer, "wasUsed=", 0, ""))]

\* cleanLayerRenderer without the removeChild.
cleanLayerRendererKeepingChild(s, i) ==
  LET layerRenderer == Lookup(s.layersRenderers, i)
  IN IF ~s.renderers[layerRenderer].wasUsed
       THEN [s EXCEPT !.renderers[layerRenderer].destroyed = @ + 1,
                      !.layersRenderers = DeleteKey(@, i),
                      !.trace = @ \o <<Ev(layerRenderer, "delete", 0, ""), Ev(Root, "deleteKey", layerRenderer, i)>>]
       ELSE [s EXCEPT !.renderers[layerRenderer].wasUsed = FALSE,
                      !.trace = Append(@, Ev(layerRenderer, "wasUsed=", 0, ""))]

\* cleanLayerRenderer leaving the flag of the renderers it keeps.
cleanLayerRendererKeepingFlag(s, i) ==
  LET layerRenderer == Lookup(s.layersRenderers, i)
  IN IF ~s.renderers[layerRenderer].wasUsed
       THEN [s EXCEPT !.pixiContainer.children = removeChild(@, layerRenderer),
                      !.renderers[layerRenderer].destroyed = @ + 1,
                      !.layersRenderers = DeleteKey(@, i),
                      !.trace = @ \o <<Ev(Root, "removeChild", layerRenderer, ""), Ev(layerRenderer, "delete", 0, ""), Ev(Root, "deleteKey", layerRenderer, i)>>]
       ELSE s

\* The body of the for-in loop of _cleanUnusedLayerRenderers, for key i.
cleanLayerRenderer(s, i) ==
  LET layerRenderer == Lookup(s.layersRenderers, i)
  IN IF ~s.renderers[layerRenderer].wasUsed
       THEN [s EXCEPT !.pixiContainer.children = removeChild(@, layerRenderer),
                      !.renderers[layerRenderer].destroyed = @ + 1,
                      !.layersRenderers = DeleteKey(@, i),
                      !.trace = @ \o <<Ev(Root, "removeChild", layerRenderer, ""), Ev(layerRenderer, "delete", 0, ""), Ev(Root, "deleteKey", layerRenderer, i)>>]
       ELSE [s EXCEPT !.renderers[layerRenderer].wasUsed = FALSE,
                      !.trace = Append(@, Ev(layerRenderer, "wasUsed=", 0, ""))]

\* for-in over the keys: a key deleted before it is reached is not visited.
RECURSIVE cleanFrom(_, _, _)
cleanFrom(s, keys, j) ==
  IF j > Len(keys) THEN s
  ELSE IF hasOwnProperty(s.layersRenderers, keys[j]) THEN cleanFrom(cleanLayerRenderer(s, keys[j]), keys, j + 1)
  ELSE cleanFrom(s, keys, j + 1)

cleanUnusedLayerRenderers(s) == cleanFrom(s, ForInKeys(s.layersRenderers), 1)

\* render() cleaning the unused layer renderers before it sorts.
renderCleaningBeforeSort(s, lay) == updatePixiObjectsZOrder(cleanUnusedLayerRenderers(renderLoop(s, lay, 0, getLayersCount(lay))))

render(s, lay) == cleanUnusedLayerRenderers(updatePixiObjectsZOrder(renderLoop(s, lay, 0, getLayersCount(lay))))

\* The pass when layerRenderer.render() throws at layer index k: the loop has
\* run for the layers 0..k, neither the sort nor the clean-up runs.
renderThrowingAt(s, lay, k) == renderLoop(s, lay, 0, k + 1)

\* ---- resetInstanceRenderersFor(objectName) -------------------------------
\* resetLayerRenderer forwarding only to the renderers marked as used.
resetLayerRendererIfUsed(s, i, objectName) ==
  LET layerRenderer == Lookup(s.layersRenderers, i)
  IN IF s.renderers[layerRenderer].wasUsed
       THEN [s EXCEPT !.trace = Append(@, Ev(layerRenderer, "resetInstanceRenderersFor", 0, objectName))]
       ELSE s

\* The body of the for-in loop, for key i.
resetLayerRenderer(s, i, objectName) ==
  LET layerRenderer == Lookup(s.layersRenderers, i)
  IN [s EXCEPT !.trace = Append(@, Ev(layerRenderer, "resetInstanceRenderersFor", 0, objectName))]

RECURSIVE resetFrom(_, _, _, _)
resetFrom(s, keys, j, objectName) ==
  IF j > Len(keys) THEN s
  ELSE IF hasOwnProperty(s.layersRenderers, keys[j]) THEN resetFrom(resetLayerRenderer(s, keys[j], objectName), keys, j + 1, objectName)
  ELSE resetFrom(s, keys, j + 1, objectName)

resetInstanceRenderersFor(s, objectName) == resetFrom(s, ForInKeys(s.layersRenderers), 1, objectName)

\* ---- delete() ------------------------------------------------------------
\* deleteLayerRenderer sparing the renderers marked as used.
deleteLayerRendererIfUnused(s, i) ==
  LET layerRenderer == Lookup(s.layersRenderers, i)
  IN IF s.renderers[layerRenderer].wasUsed
       THEN s
       ELSE [s EXCEPT !.renderers[layerRenderer].destroyed = @ + 1,
                      !.trace = Append(@, Ev(layerRenderer, "delete", 0, ""))]

\* The body of the for-in loop, for key i.
deleteLayerRenderer(s, i) ==
  LET layerRenderer == Lookup(s.layersRenderers, i)
  IN [s EXCEPT !.renderers[layerRenderer].destroyed = @ + 1,
               !.trace = Append(@, Ev(layerRenderer, "delete", 0, ""))]

RECURSIVE deleteFrom(_, _, _)
deleteFrom(s, keys, j) ==
  IF j > Len(keys) THEN s
  ELSE IF hasOwnProperty(s.layersRenderers, keys[j]) THEN deleteFrom(deleteLayerRenderer(s, keys[j]), keys, j + 1)
  ELSE deleteFrom(s, keys, j + 1)

destroyPixiContainer(s) ==
  [s EXCEPT !.pixiContainer.destroyed = @ + 1,
            !.trace = Append(@, Ev(Root, "destroy", 0, ""))]

\* delete() without the loop over the layer renderers.
deleteContainerOnly(s) == destroyPixiContainer(s)

delete(s) == destroyPixiContainer(deleteFrom(s, ForInKeys(s.layersRenderers), 1))

\* ---- instanceMeasurer ----------------------------------------------------
\* Each query gives its return value and the calls it made on layer renderers.
getInstanceLeft(s, instance) ==
  LET layerName == instance.layer
      layerRenderer == Lookup(s.layersRenderers, layerName)
  IN IF layerRenderer = NoRenderer THEN [ret |-> instance.x, calls |-> <<>>]
     ELSE [ret |-> LayerRendererGetInstanceLeft(layerRenderer, instance), calls |-> <<Ev(layerRenderer, "getInstanceLeft", 0, "")>>]

\* getInstanceTop falling back to the x of the instance.
getInstanceTopFallingBackToX(s, instance) ==
  LET layerName == instance.layer
      layerRenderer == Lookup(s.layersRenderers, layerName)
  IN IF layerRenderer = NoRenderer THEN [ret |-> instance.x, calls |-> <<>>]
     ELSE [ret |-> LayerRendererGetInstanceTop(layerRenderer, instance), calls |-> <<Ev(layerRenderer, "getInstanceTop", 0, "")>>]

getInstanceTop(s, instance) ==
  LET layerName == instance.layer
      layerRenderer == Lookup(s.layersRenderers, layerName)
  IN IF layerRenderer = NoRenderer THEN [ret |-> instance.y, calls |-> <<>>]
     ELSE [ret |-> LayerRendererGetInstanceTop(layerRenderer, instance), calls |-> <<Ev(layerRenderer, "getInstanceTop", 0, "")>>]

\* getInstanceWidth asking the layer renderer before the custom size.
getInstanceWidthRendererFirst(s, instance) ==
  LET layerName == instance.layer
      layerRenderer == Lookup(s.layersRenderers, layerName)
  IN IF layerRenderer # NoRenderer THEN [ret |-> LayerRendererGetInstanceWidth(layerRenderer, instance), calls |-> <<Ev(layerRenderer, "getInstanceWidth", 0, "")>>]
     ELSE IF instance.hasCustomSize THEN [ret |-> instance.customWidth, calls |-> <<>>]
     ELSE [ret |-> 0, calls |-> <<>>]

getInstanceWidth(s, instance) ==
  LET layerName == instance.layer
      layerRenderer == Lookup(s.layersRenderers, layerName)
  IN IF instance.hasCustomSize THEN [ret |-> instance.customWidth, calls |-> <<>>]
     ELSE IF layerRenderer = NoRenderer THEN [ret |-> 0, calls |-> <<>>]
     ELSE [ret |-> LayerRendererGetInstanceWidth(layerRenderer, instance), calls |-> <<Ev(layerRenderer, "getInstanceWidth", 0, "")>>]

getInstanceHeight(s, instance) ==
  LET layerName == instance.layer
      layerRenderer == Lookup(s.layersRenderers, layerName)
  IN IF instance.hasCustomSize THEN [ret |-> instance.customHeight, calls |-> <<>>]
     ELSE IF layerRenderer = NoRenderer THEN [ret |-> 0, calls |-> <<>>]
     ELSE [ret |-> LayerRendererGetInstanceHeight(layerRenderer, instance), calls |-> <<Ev(layerRenderer, "getInstanceHeight", 0, "")>>]

getInstanceRect(s, instance) ==
  LET left == getInstanceLeft(s, instance)
      top == getInstanceTop(s, instance)
      width == getInstanceWidth(s, instance)
      height == getInstanceHeight(s, instance)
  IN [ret |-> [x |-> left.ret, y |-> top.ret, width |-> width.ret, height |-> height.ret],
      calls |-> left.calls \o top.calls \o width.calls \o height.calls]

\* ---- the state machine ---------------------------------------------------
NoSnapshot == [layersRenderers |-> <<>>, renderers |-> <<>>, pixiContainer |-> [children |-> <<>>, destroyed |-> 0], reported |-> {}]
Snapshot == [layersRenderers |-> layersRenderers, renderers |-> renderers, pixiContainer |-> pixiContainer, reported |-> reported]

\* What the last operation was, with its argument and its result.
Op(op, objectName, instance, ret, rect, before) ==
  [op |-> op, objectName |-> objectName, instance |-> instance, ret |-> ret, rect |-> rect, before |-> before]

Torn == pixiContainer.destroyed > 0

\* The names a pass over `lay` has no renderer for yet.
Missing(lay) == LayoutNames(lay) \ Keys(layersRenderers)

Init ==
  /\ layout = <<"Background", "Main">>
  /\ layersRenderers = <<>>
  /\ renderers = <<>>
  /\ pixiContainer = [children |-> <<>>, destroyed |-> 0]
  /\ trace = <<>>
  /\ lastOp = Op("new", "", NoInstance, 0, NoRect, NoSnapshot)
  /\ reported = {}

Commit(s) ==
  /\ layersRenderers' = s.layersRenderers
  /\ renderers' = s.renderers
  /\ pixiContainer' = s.pixiContainer
  /\ trace' = s.trace

LayoutChanged ==
  /\ lastOp' = Op("layout", "", NoInstance, 0, NoRect, NoSnapshot)
  /\ trace' = <<>>
  /\ UNCHANGED <<layersRenderers, renderers, pixiContainer, reported>>

\* The editor inserts a layer with a new name at position p.
InsertNewLayer(name, p) ==
  /\ ~Torn
  /\ name \notin LayoutNames(layout)
  /\ p \in 0..Len(layout)
  /\ layout' = SubSeq(layout, 1, p) \o <<name>> \o SubSeq(layout, p + 1, Len(layout))
  /\ LayoutChanged

\* The editor removes the layer at position p.
RemoveLayer(p) ==
  /\ ~Torn
  /\ p \in 0..(Len(layout) - 1)
  /\ layout' = SubSeq(layout, 1, p) \o SubSeq(layout, p + 2, Len(layout))
  /\ LayoutChanged

\* The editor swaps the layers at positions a and b.
SwapLayers(a, b) ==
  /\ ~Torn
  /\ a \in 0..(Len(layout) - 1)
  /\ b \in 0..(Len(layout) - 1)
  /\ a < b
  /\ layout' = [layout EXCEPT ![a + 1] = layout[b + 1], ![b + 1] = layout[a + 1]]
  /\ LayoutChanged

Render(cap) ==
  /\ ~Torn
  /\ Len(renderers) + Cardinality(Missing(layout)) <= cap
  /\ Commit(render(This, layout))
  /\ lastOp' = Op("render", "", NoInstance, 0, NoRect, Snapshot)
  /\ reported' = LayoutNames(layout)
  /\ UNCHANGED layout

ResetInstanceRenderersFor(objectName) ==
  /\ ~Torn
  /\ Commit(resetInstanceRenderersFor(This, objectName))
  /\ lastOp' = Op("reset", objectName, NoInstance, 0, NoRect, Snapshot)
  /\ UNCHANGED <<layout, reported>>

Delete ==
  /\ ~Torn
  /\ Commit(delete(This))
  /\ lastOp' = Op("delete", "", NoInstance, 0, NoRect, Snapshot)
  /\ UNCHANGED <<layout, reported>>

Measure(op, q, instance) ==
  /\ ~Torn
  /\ trace' = q.calls
  /\ lastOp' = Op(op, "", instance, q.ret, NoRect, NoSnapshot)
  /\ UNCHANGED <<layout, layersRenderers, renderers, pixiContainer, reported>>

GetInstanceLeft(instance) == Measure("getInstanceLeft", getInstanceLeft(This, instance), instance)
GetInstanceTop(instance) == Measure("getInstanceTop", getInstanceTop(This, instance), instance)
GetInstanceWidth(instance) == Measure("getInstanceWidth", getInstanceWidth(This, instance), instance)
GetInstanceHeight(instance) == Measure("getInstanceHeight", getInstanceHeight(This, instance), instance)

GetInstanceRect(instance) ==
  LET q == getInstanceRect(This, instance)
  IN /\ ~Torn
     /\ trace' = q.calls
     /\ lastOp' = Op("getInstanceRect", "", instance, 0, q.ret, NoSnapshot)
     /\ UNCHANGED <<layout, layersRenderers, renderers, pixiContainer, reported>>

\* A pass in which the render step of the layer at index k throws.
RenderThrows(k, cap) ==
  /\ ~Torn
  /\ k \in 0..(Len(layout) - 1)
  /\ Len(renderers) + Cardinality(Missing(layout)) <= cap
  /\ Commit(renderThrowingAt(This, layout, k))
  /\ lastOp' = Op("renderThrew", "", NoInstance, k, NoRect, Snapshot)
  /\ reported' = {layout[p] : p \in 1..(k + 1)}
  /\ UNCHANGED layout

Next ==
  \/ \E name \in LayerNames, p \in 0..MaxLayers : InsertNewLayer(name, p)
  \/ \E p \in 0..MaxLayers : RemoveLayer(p)
  \/ \E a \in 0..MaxLayers, b \in 0..MaxLayers : SwapLayers(a, b)
  \/ Render(MaxRenderers)
  \/ \E objectName \in ObjectNames : ResetInstanceRenderersFor(objectName)
  \/ \E instance \in Instances : GetInstanceLeft(instance)
  \/ \E instance \in Instances : GetInstanceTop(instance)
  \/ \E instance \in Instances : GetInstanceWidth(instance)
  \/ \E instance \in Instances : GetInstanceHeight(instance)
  \/ \E instance \in Instances : GetInstanceRect(instance)
  \/ Delete

Spec == Init /\ [][Next]_vars

\* The same program when a layer renderer's render step may throw, with its
\* own cap on the renderers constructed.  The measurer's queries, which
\* change nothing of the object, are left out.
NextThrowing ==
  \/ \E name \in LayerNames, p \in 0..MaxLayers : InsertNewLayer(name, p)
  \/ \E p \in 0..MaxLayers : RemoveLayer(p)
  \/ \E a \in 0..MaxLayers, b \in 0..MaxLayers : SwapLayers(a, b)
  \/ Render(MaxRenderersThrowing)
  \/ \E k \in 0..MaxLayers : RenderThrows(k, MaxRenderersThrowing)
  \/ \E objectName \in ObjectNames : ResetInstanceRenderersFor(objectName)
  \/ Delete

SpecThrowing == Init /\ [][NextThrowing]_vars

\* The same program when the embedding code, which keeps the measurer and the
\* renderer it was given, goes on calling the measurer's queries and
\* resetInstanceRenderersFor after delete().  delete() leaves layersRenderers
\* as it is.
ResetAfterDelete(objectName) ==
  /\ Torn
  /\ Commit(resetInstanceRenderersFor(This, objectName))
  /\ lastOp' = Op("reset", objectName, NoInstance, 0, NoRect, Snapshot)
  /\ UNCHANGED <<layout, reported>>

MeasureAfterDelete(op, q, instance) ==
  /\ Torn
  /\ trace' = q.calls
  /\ lastOp' = Op(op, "", instance, q.ret, NoRect, NoSnapshot)
  /\ UNCHANGED <<layout, layersRenderers, renderers, pixiContainer, reported>>

GetInstanceLeftAfterDelete(instance) == MeasureAfterDelete("getInstanceLeft", getInstanceLeft(This, instance), instance)
GetInstanceTopAfterDelete(instance) == MeasureAfterDelete("getInstanceTop", getInstanceTop(This, instance), instance)
GetInstanceWidthAfterDelete(instance) == MeasureAfterDelete("getInstanceWidth", getInstanceWidth(This, instance), instance)
GetInstanceHeightAfterDelete(instance) == MeasureAfterDelete("getInstanceHeight", getInstanceHeight(This, instance), instance)

GetInstanceRectAfterDelete(instance) ==
  LET q == getInstanceRect(This, instance)
  IN /\ Torn
     /\ trace' = q.calls
     /\ lastOp' = Op("getInstanceRect", "", instance, 0, q.ret, NoSnapshot)
     /\ UNCHANGED <<layout, layersRenderers, renderers, pixiContainer, reported>>

NextAfterTeardown ==
  \/ Next
  \/ \E objectName \in ObjectNames : ResetAfterDelete(objectName)
  \/ \E instance \in Instances : GetInstanceLeftAfterDelete(instance)
  \/ \E instance \in Instances : GetInstanceTopAfterDelete(instance)
  \/ \E instance \in Instances : GetInstanceWidthAfterDelete(instance)
  \/ \E instance \in Instances : GetInstanceHeightAfterDelete(instance)
  \/ \E instance \in Instances : GetInstanceRectAfterDelete(instance)

SpecAfterTeardown == Init /\ [][NextAfterTeardown]_vars

\* The same program under a layout that may report a layer name at several
\* positions: render() reads names and layers by position and never compares
\* two names of the layout.
InsertLayerNamed(name, p) ==
  /\ ~Torn
  /\ Len(layout) < MaxDupLayers
  /\ p \in 0..Len(layout)
  /\ layout' = SubSeq(layout, 1, p) \o <<name>> \o SubSeq(layout, p + 1, Len(layout))
  /\ LayoutChanged

NextDuplicates ==
  \/ \E name \in LayerNames, p \in 0..MaxDupLayers : InsertLayerNamed(name, p)
  \/ \E p \in 0..(MaxDupLayers - 1) : RemoveLayer(p)
  \/ \E a, b \in 0..(MaxDupLayers - 1) : SwapLayers(a, b)
  \/ Render(MaxDupRenderers)
  \/ \E objectName \in ObjectNames : ResetInstanceRenderersFor(objectName)
  \/ Delete

SpecDuplicates == Init /\ [][NextDuplicates]_vars

\* ---- the claims -----------------------------------------------------------
AfterRender == lastOp.op = "render"
Before == lastOp.before
PositionOf(lay, n) == CHOOSE p \in 0..(Len(lay) - 1) : lay[p + 1] = n
IndexOfChild(children, c) == CHOOSE j \in 1..Len(children) : children[j] = c
TraceHas(target, method) == \E j \in 1..Len(trace) : trace[j].target = target /\ trace[j].method = method

\* C1: after a render() call the layer-renderer mapping has exactly one entry
\* per layer the layout reports, keyed by the layer's name, and no entry for
\* any other name: its size is the layout's layer count.
C1_MappingMatchesLayout ==
  AfterRender =>
    /\ Keys(layersRenderers) = LayoutNames(layout)
    /\ Len(layersRenderers) = getLayersCount(layout)
    /\ \A n \in LayoutNames(layout) : Cardinality({j \in 1..Len(layersRenderers) : layersRenderers[j].key = n}) = 1

\* A pass that both dropped an entry and added one.
C1_Witness ==
  /\ AfterRender
  /\ Keys(Before.layersRenderers) \ LayoutNames(layout) # {}
  /\ LayoutNames(layout) \ Keys(Before.layersRenderers) # {}

\* C2: after render() the drawable of the layer at layout position i has
\* z-index i, and the root container's children are in layout order.
C2_ZOrderFollowsLayout ==
  AfterRender =>
    /\ Len(pixiContainer.children) = getLayersCount(layout)
    /\ \A i \in 0..(getLayersCount(layout) - 1) :
         LET r == Lookup(layersRenderers, getLayerAt(layout, i).name)
         IN /\ r # NoRenderer
            /\ renderers[r].zOrder = i
            /\ pixiContainer.children[i + 1] = r

\* A pass after which two surviving children stand in the reverse of the
\* order they had before it.
C2_Witness ==
  /\ AfterRender
  /\ \E a \in ChildSet(pixiContainer.children), b \in ChildSet(pixiContainer.children) :
       /\ a \in ChildSet(Before.pixiContainer.children)
       /\ b \in ChildSet(Before.pixiContainer.children)
       /\ IndexOfChild(Before.pixiContainer.children, a) < IndexOfChild(Before.pixiContainer.children, b)
       /\ IndexOfChild(pixiContainer.children, a) > IndexOfChild(pixiContainer.children, b)

\* C3: a name reported in the previous pass and not in this one has, at the
\* end of this pass, its renderer destroyed, its drawable out of the root
\* container and its entry deleted; and as long as passes run, a destroyed
\* renderer is neither in the mapping nor in the root container.
C3_UnreportedLayerCollected ==
  /\ AfterRender =>
       \A n \in Before.reported \ LayoutNames(layout) :
         LET r == Lookup(Before.layersRenderers, n)
         IN /\ r # NoRenderer
            /\ renderers[r].destroyed = 1
            /\ r \notin ChildSet(pixiContainer.children)
            /\ ~hasOwnProperty(layersRenderers, n)
  /\ ~Torn =>
       \A r \in DOMAIN renderers :
         renderers[r].destroyed > 0 => r \notin Values(layersRenderers) /\ r \notin ChildSet(pixiContainer.children)

\* A pass that collects a renderer and constructs another, with a renderer
\* collected by an earlier pass around.
C3_Witness ==
  /\ AfterRender
  /\ Before.reported \ LayoutNames(layout) # {}
  /\ \E r \in DOMAIN Before.renderers : Before.renderers[r].destroyed = 1
  /\ Len(renderers) > Len(Before.renderers)

\* C4: when the layer object of a name reported in the previous pass and in
\* this one is another object than the one its renderer held, the pass keeps
\* the renderer (neither destroyed nor replaced by a new one) and leaves it
\* holding the new layer object.
C4_LayerObjectRebound ==
  AfterRender =>
    \A n \in Before.reported \cap LayoutNames(layout) :
      LET r == Lookup(Before.layersRenderers, n)
          layer == getLayerAt(layout, PositionOf(layout, n))
      IN /\ r # NoRenderer
         /\ Before.renderers[r].layer # layer.obj =>
              /\ Lookup(layersRenderers, n) = r
              /\ renderers[r].destroyed = 0
              /\ renderers[r].layer = layer.obj
              /\ ~TraceHas(r, "delete")
              /\ \A j \in 1..Len(trace) : ~(trace[j].method = "new" /\ trace[j].str = n)

\* A pass that found a renderer holding another layer object than the
\* current one of its name.
C4_Witness ==
  /\ AfterRender
  /\ \E n \in Before.reported \cap LayoutNames(layout) :
       /\ hasOwnProperty(Before.layersRenderers, n)
       /\ Before.renderers[Lookup(Before.layersRenderers, n)].layer # getLayerAt(layout, PositionOf(layout, n)).obj
       /\ renderers[Lookup(layersRenderers, n)].layer = getLayerAt(layout, PositionOf(layout, n)).obj

\* C5: after render() the root container's children are exactly the drawables
\* of the mapping's entries, each once, none of a destroyed renderer.
C5_ChildrenAreMappedDrawables ==
  AfterRender =>
    /\ ChildSet(pixiContainer.children) = Values(layersRenderers)
    /\ Cardinality(ChildSet(pixiContainer.children)) = Len(pixiContainer.children)
    /\ Cardinality(Values(layersRenderers)) = Len(layersRenderers)
    /\ \A c \in ChildSet(pixiContainer.children) : renderers[c].destroyed = 0

\* A pass that took a child out of the root container and left others in.
C5_Witness ==
  /\ AfterRender
  /\ ChildSet(Before.pixiContainer.children) \ ChildSet(pixiContainer.children) # {}
  /\ pixiContainer.children # <<>>

AfterDelete == lastOp.op = "delete"
AfterReset == lastOp.op = "reset"
Asked == lastOp.instance
NoEntryForAsked == ~hasOwnProperty(layersRenderers, Asked.layer)
CallsOn(target, method) == {j \in 1..Len(trace) : trace[j].target = target /\ trace[j].method = method}

\* C6: after renders and one teardown, every LayerRenderer ever constructed
\* has been destroyed exactly once and so has the root container; the
\* teardown destroys no renderer that a clean-up had destroyed.
C6_EverythingDestroyedOnce ==
  AfterDelete =>
    /\ pixiContainer.destroyed = 1
    /\ \A r \in DOMAIN renderers : renderers[r].destroyed = 1
    /\ \A r \in DOMAIN renderers : Before.renderers[r].destroyed = 1 => ~TraceHas(r, "delete")

\* A teardown with a renderer collected by a pass and another still mapped.
C6_Witness ==
  /\ AfterDelete
  /\ \E r \in DOMAIN renderers : Before.renderers[r].destroyed = 1
  /\ \E r \in DOMAIN renderers : Before.renderers[r].destroyed = 0 /\ renderers[r].destroyed = 1

\* C7: for an instance whose layer name has no entry in the mapping, left is
\* the instance's x, top its y, width and height its custom size if it has
\* one and 0 otherwise, and no layer renderer is called.
C7_MeasurerFallback ==
  NoEntryForAsked =>
    /\ lastOp.op = "getInstanceLeft" => lastOp.ret = Asked.x /\ trace = <<>>
    /\ lastOp.op = "getInstanceTop" => lastOp.ret = Asked.y /\ trace = <<>>
    /\ lastOp.op = "getInstanceWidth" => lastOp.ret = (IF Asked.hasCustomSize THEN Asked.customWidth ELSE 0) /\ trace = <<>>
    /\ lastOp.op = "getInstanceHeight" => lastOp.ret = (IF Asked.hasCustomSize THEN Asked.customHeight ELSE 0) /\ trace = <<>>

\* The top of an instance whose layer's renderer was collected by a pass.
C7_Witness ==
  /\ lastOp.op = "getInstanceTop"
  /\ NoEntryForAsked
  /\ \E r \in DOMAIN renderers : renderers[r].destroyed = 1
  /\ layersRenderers # <<>>

\* C8: width and height are the custom width and height when the instance
\* has a custom size (no layer renderer is called, even if there is one),
\* else what the renderer mapped to the instance's layer name computes, else
\* 0; the rect is {x: left, y: top, width, height} of the same four queries.
ExpectedLeft == IF NoEntryForAsked THEN Asked.x ELSE LayerRendererGetInstanceLeft(Lookup(layersRenderers, Asked.layer), Asked)
ExpectedTop == IF NoEntryForAsked THEN Asked.y ELSE LayerRendererGetInstanceTop(Lookup(layersRenderers, Asked.layer), Asked)
ExpectedWidth == IF Asked.hasCustomSize THEN Asked.customWidth ELSE IF NoEntryForAsked THEN 0 ELSE LayerRendererGetInstanceWidth(Lookup(layersRenderers, Asked.layer), Asked)
ExpectedHeight == IF Asked.hasCustomSize THEN Asked.customHeight ELSE IF NoEntryForAsked THEN 0 ELSE LayerRendererGetInstanceHeight(Lookup(layersRenderers, Asked.layer), Asked)
NoCallIfCustom(method) == IF Asked.hasCustomSize \/ NoEntryForAsked THEN trace = <<>> ELSE trace = <<Ev(Lookup(layersRenderers, Asked.layer), method, 0, "")>>

C8_MeasurerSize ==
  /\ lastOp.op = "getInstanceWidth" => lastOp.ret = ExpectedWidth /\ NoCallIfCustom("getInstanceWidth")
  /\ lastOp.op = "getInstanceHeight" => lastOp.ret = ExpectedHeight /\ NoCallIfCustom("getInstanceHeight")
  /\ lastOp.op = "getInstanceRect" =>
       /\ lastOp.rect = [x |-> ExpectedLeft, y |-> ExpectedTop, width |-> ExpectedWidth, height |-> ExpectedHeight]
       /\ Asked.hasCustomSize => CallsOn(Lookup(layersRenderers, Asked.layer), "getInstanceWidth") = {} /\ CallsOn(Lookup(layersRenderers, Asked.layer), "getInstanceHeight") = {}

\* The width of an instance with a custom size on a layer that has a renderer.
C8_Witness ==
  /\ lastOp.op = "getInstanceWidth"
  /\ Asked.hasCustomSize
  /\ ~NoEntryForAsked
  /\ lastOp.ret = Asked.customWidth

\* C9: teardown destroys every entry of the mapping, whatever its wasUsed
\* flag, and destroys the root container after all of them.
C9_TeardownDestroysAll ==
  AfterDelete =>
    /\ \A r \in Values(Before.layersRenderers) :
         /\ renderers[r].destroyed = Before.renderers[r].destroyed + 1
         /\ Cardinality(CallsOn(r, "delete")) = 1
    /\ trace # <<>>
    /\ trace[Len(trace)] = Ev(Root, "destroy", 0, "")
    /\ CallsOn(Root, "destroy") = {Len(trace)}
    /\ pixiContainer.destroyed = 1

\* A teardown with an entry marked as used and an entry not marked.
C9_Witness ==
  /\ AfterDelete
  /\ \E r \in Values(Before.layersRenderers) : Before.renderers[r].wasUsed /\ renderers[r].destroyed = 1
  /\ \E r \in Values(Before.layersRenderers) : ~Before.renderers[r].wasUsed /\ renderers[r].destroyed = 1

\* C10: resetInstanceRenderersFor(objectName) calls the reset of every entry
\* of the mapping once, with objectName, calls no other renderer, and leaves
\* the mapping, the renderers' flags and layers, and the root container with
\* its children and their z-indices as they were.
C10_ResetForwardedToAll ==
  AfterReset =>
    /\ \A r \in Values(layersRenderers) : Cardinality(CallsOn(r, "resetInstanceRenderersFor")) = 1
    /\ \A j \in 1..Len(trace) :
         /\ trace[j].method = "resetInstanceRenderersFor"
         /\ trace[j].str = lastOp.objectName
         /\ trace[j].target \in Values(layersRenderers)
    /\ layersRenderers = Before.layersRenderers
    /\ renderers = Before.renderers
    /\ pixiContainer = Before.pixiContainer

\* A reset forwarded to two entries, one marked as used and one not.
C10_Witness ==
  /\ AfterReset
  /\ \E r \in Values(layersRenderers) : renderers[r].wasUsed /\ CallsOn(r, "resetInstanceRenderersFor") # {}
  /\ \E r \in Values(layersRenderers) : ~renderers[r].wasUsed /\ CallsOn(r, "resetInstanceRenderersFor") # {}

\* The positions in the trace of the assignments wasUsed = v on renderer r.
FlagSet(r, v) == {j \in 1..Len(trace) : trace[j] = Ev(r, "wasUsed=", v, "")}
SortAt == CHOOSE j \in 1..Len(trace) : trace[j].target = Root /\ trace[j].method = "sort"

\* C11: between passes every entry of the mapping has wasUsed false; in a
\* pass the flag of an entry is set when the loop touches it and cleared by
\* the clean-up of the same pass, and the entries the clean-up destroys are
\* those the loop did not touch.
C11_FlagsClearBetweenPasses ==
  /\ \A r \in Values(layersRenderers) : ~renderers[r].wasUsed
  /\ AfterRender =>
       /\ \A r \in Values(layersRenderers) :
            /\ FlagSet(r, 1) # {}
            /\ Cardinality(FlagSet(r, 0)) = 1
            /\ \A j \in FlagSet(r, 1), k \in FlagSet(r, 0) : j < SortAt /\ SortAt < k
       /\ \A r \in Values(Before.layersRenderers) \ Values(layersRenderers) :
            /\ FlagSet(r, 1) = {}
            /\ FlagSet(r, 0) = {}
            /\ renderers[r].destroyed = 1

\* A pass that kept an entry and destroyed another.
C11_Witness ==
  /\ AfterRender
  /\ \E r \in Values(layersRenderers) : r \in Values(Before.layersRenderers) /\ FlagSet(r, 0) # {}
  /\ \E r \in Values(Before.layersRenderers) : r \notin Values(layersRenderers) /\ renderers[r].destroyed = 1

\* C12: the pass that runs to its end after a pass that threw (entries marked
\* as used, no clean-up) and a change of the layout leaves the mapping with
\* one entry per layer the layout reports and none for another name.
C12_NextPassCleansUp ==
  (AfterRender /\ \E r \in Values(Before.layersRenderers) : Before.renderers[r].wasUsed) =>
    /\ Keys(layersRenderers) = LayoutNames(layout)
    /\ Len(layersRenderers) = getLayersCount(layout)

\* C13: a name reported by the previous pass and by this one is mapped, at the
\* end of this pass, to the renderer it was mapped to at the end of the
\* previous one; that renderer is not destroyed and no renderer was
\* constructed for the name.  (From pass to pass, hence from pass M to N.)
C13_ReportedEntryPersists ==
  AfterRender =>
    \A n \in Before.reported \cap LayoutNames(layout) :
      LET r == Lookup(Before.layersRenderers, n)
      IN /\ r # NoRenderer
         /\ Lookup(layersRenderers, n) = r
         /\ renderers[r].destroyed = 0
         /\ ~TraceHas(r, "delete")
         /\ \A j \in 1..Len(trace) : trace[j].method = "new" => trace[j].str # n

\* A pass that kept the renderer of a name reported again while it destroyed
\* the renderer of another name and constructed one for a third.
C13_Witness ==
  /\ AfterRender
  /\ \E n \in Before.reported \cap LayoutNames(layout) :
       /\ Lookup(layersRenderers, n) = Lookup(Before.layersRenderers, n)
       /\ Lookup(layersRenderers, n) # NoRenderer
  /\ \E r \in Values(Before.layersRenderers) : renderers[r].destroyed = 1
  /\ Len(renderers) > Len(Before.renderers)

\* The positions in the trace of the calls of a layer renderer's render step,
\* of the steps of the loop on renderer r for index i, and of the clean-up.
RenderCalls == {j \in 1..Len(trace) : trace[j].method = "render"}
RenderCallOf(i) == CHOOSE j \in RenderCalls : trace[j].arg = i
StepsOf(r, i, obj) == {j \in 1..Len(trace) : trace[j] \in {Ev(r, "layer=", obj, ""), Ev(r, "wasUsed=", 1, ""), Ev(r, "zOrder=", i, "")}}
SweepSteps == {j \in 1..Len(trace) : trace[j].method \in {"removeChild", "delete", "deleteKey"} \/ (trace[j].method = "wasUsed=" /\ trace[j].arg = 0)}
LoopStart(i) == IF i = 0 THEN 0 ELSE RenderCallOf(i - 1)

\* C14: a pass walks the layers in layout order; for each it looks the
\* renderer up or constructs it, then rebinds its layer, marks it as used
\* and sets its zOrder to the index, all before it calls its render step,
\* which it calls once per reported layer; it sorts the root container after
\* the last render step and sweeps the unmarked entries after the sort.
C14_PassOrder ==
  AfterRender =>
    /\ Cardinality(RenderCalls) = getLayersCount(layout)
    /\ \A i \in 0..(getLayersCount(layout) - 1) :
         /\ Cardinality({j \in RenderCalls : trace[j].arg = i}) = 1
         /\ LET j == RenderCallOf(i)
                r == trace[j].target
                layer == getLayerAt(layout, i)
            IN /\ trace[j].str = layer.name
               /\ r = Lookup(layersRenderers, layer.name)
               /\ LoopStart(i) < j
               /\ Cardinality(StepsOf(r, i, layer.obj)) = 3
               /\ \A k \in StepsOf(r, i, layer.obj) : LoopStart(i) < k /\ k < j
               /\ \A k \in 1..Len(trace) :
                    (trace[k].target = r /\ trace[k].method = "new") =>
                      /\ LoopStart(i) < k
                      /\ \A m \in StepsOf(r, i, layer.obj) : k < m
    /\ Cardinality({j \in 1..Len(trace) : trace[j].target = Root /\ trace[j].method = "sort"}) = 1
    /\ \A j \in RenderCalls : j < SortAt
    /\ \A j \in SweepSteps : SortAt < j

\* A pass over two layers or more that constructs a renderer and destroys one.
C14_Witness ==
  /\ AfterRender
  /\ getLayersCount(layout) >= 2
  /\ \E j \in 1..Len(trace) : trace[j].method = "new"
  /\ \E j \in 1..Len(trace) : trace[j].method = "delete" /\ SortAt < j

\* The calls an operation forwards to a layer renderer.
ForwardedMethods == {"render", "delete", "resetInstanceRenderersFor", "getInstanceLeft", "getInstanceTop", "getInstanceWidth", "getInstanceHeight"}
QueriesAndReset == {"reset", "getInstanceLeft", "getInstanceTop", "getInstanceWidth", "getInstanceHeight", "getInstanceRect"}
\* Whether renderer r was destroyed when the last operation started.
DestroyedAtCall(r) ==
  IF lastOp.op \in QueriesAndReset THEN renderers[r].destroyed > 0
  ELSE r \in DOMAIN Before.renderers /\ Before.renderers[r].destroyed > 0

\* C15: no operation forwards a call to a LayerRenderer that is destroyed,
\* and at a measurer query or a reset every renderer of the mapping is one
\* that has not been destroyed.
C15_NoCallOnDestroyed ==
  /\ \A j \in 1..Len(trace) :
       (trace[j].target # Root /\ trace[j].method \in ForwardedMethods) => ~DestroyedAtCall(trace[j].target)
  /\ lastOp.op \in QueriesAndReset =>
       \A r \in Values(layersRenderers) : renderers[r].destroyed = 0

\* The positions at which the layout reports name n, and the last of them.
Occurrences(lay, n) == {p \in 0..(Len(lay) - 1) : lay[p + 1] = n}
LastPositionOf(lay, n) == CHOOSE p \in Occurrences(lay, n) : \A q \in Occurrences(lay, n) : q <= p
EntriesOf(n) == {j \in 1..Len(layersRenderers) : layersRenderers[j].key = n}
ChildrenOf(r) == {j \in 1..Len(pixiContainer.children) : pixiContainer.children[j] = r}
RenderStepsOf(r) == {j \in 1..Len(trace) : trace[j].target = r /\ trace[j].method = "render"}
ConstructionsOf(n) == {j \in 1..Len(trace) : trace[j].method = "new" /\ trace[j].str = n}

\* C16: after a pass over a layout that may report a name at several
\* positions, each reported name has one mapping entry and one child of the
\* root container and was constructed at most once, its renderer's layer and
\* zOrder are those of the last position reporting the name, its render step
\* ran once per occurrence, and the mapping has one entry per distinct name.
C16_LastWriteWins ==
  AfterRender =>
    /\ Keys(layersRenderers) = LayoutNames(layout)
    /\ Len(layersRenderers) = Cardinality(LayoutNames(layout))
    /\ Len(pixiContainer.children) = Cardinality(LayoutNames(layout))
    /\ \A n \in LayoutNames(layout) :
         LET r == Lookup(layersRenderers, n)
             last == LastPositionOf(layout, n)
         IN /\ Cardinality(EntriesOf(n)) = 1
            /\ Cardinality(ChildrenOf(r)) = 1
            /\ Cardinality(ConstructionsOf(n)) = (IF n \in Keys(Before.layersRenderers) THEN 0 ELSE 1)
            /\ renderers[r].layer = getLayerAt(layout, last).obj
            /\ renderers[r].zOrder = last
            /\ Cardinality(RenderStepsOf(r)) = Cardinality(Occurrences(layout, n))
            /\ {trace[j].arg : j \in RenderStepsOf(r)} = Occurrences(layout, n)

\* A pass over a layout that reports one name at two positions and another
\* name between or around them, the repeated name having had its renderer
\* before the pass.
C16_Witness ==
  /\ AfterRender
  /\ Len(layersRenderers) >= 2
  /\ \E n \in LayoutNames(layout) :
       /\ Cardinality(Occurrences(layout, n)) >= 2
       /\ n \in Keys(Before.layersRenderers)
       /\ Before.renderers[Lookup(layersRenderers, n)].layer # renderers[Lookup(layersRenderers, n)].layer

====
